---- MODULE Spec2Model ----
(***************************************************************************)
(* os-unfair-lock: a Mutex<T> that pairs an os_unfair_lock word with an    *)
(* UnsafeCell<T>, and the MutexGuard that lock()/try_lock() hand out.      *)
(* One Mutex is shared by NThreads threads.  A thread is identified by a   *)
(* non-zero number; the lock word is 0 (OS_UNFAIR_LOCK_INIT) when unlocked *)
(* and the owner's number when locked.                                     *)
(***************************************************************************)
EXTENDS Integers, FiniteSets, Sequences, TLC

\* ---- bounds of the model ------------------------------------------------
NThreads == 2       \* threads sharing the Mutex
NContenders == 3    \* threads contending for the lock in SpecWait and SpecLive
MaxCalls == 4       \* lock() and try_lock() calls in SpecWait and SpecLive
MaxGuards == 2      \* MutexGuard objects that can be alive at once
MaxValue == 1       \* the protected value ranges over 0..MaxValue in Spec
MaxAcquire == 2     \* successful acquisitions in one run of Spec
Iters == 2          \* increments per thread in SpecIncr (the M of N x M)
MaxObserve == 1     \* read-only critical sections in one run of SpecIncr

\* ---- program constants --------------------------------------------------
OS_UNFAIR_LOCK_INIT == 0

Threads == 1..NThreads
Contenders == 1..NContenders
\* Values the lock word can be given: free, owned by a thread, or a word
\* that names no thread.
Words == 0..NThreads + 1
Values == 0..MaxValue
GuardIds == 1..MaxGuards
NoThread == OS_UNFAIR_LOCK_INIT
TestValue == 42
DefaultValue == 0     \* T::default() of the integer the tests protect

VARIABLES
    lock,       \* Mutex.lock, the os_unfair_lock word
    cell,       \* Mutex.cell, the protected value
    guards,     \* the live MutexGuard objects
    pc,         \* what each thread is doing
    status,     \* "live", "consumed" (into_inner ran) or "aborted"
    last,       \* the operation that led to this state, with the state before it
    acquired,   \* number of guards returned by lock() and try_lock()
    released,   \* number of os_unfair_lock_unlock calls made by guard drops
    x0,         \* the value given to Mutex::new
    reg,        \* SpecIncr: the value each thread last read through its guard
    incs,       \* SpecIncr: completed increments, by the way the guard was obtained
    ip,         \* SpecIncr: position of each thread in its increment loop
    count       \* SpecIncr: increments each thread has completed

cvars == <<lock, cell, guards, pc, status, last, acquired, released>>
svars == <<reg, x0, incs, ip, count>>
svars_but_ip == <<reg, x0, incs, count>>
vars == <<lock, cell, guards, pc, status, reg, last, acquired, released,
          x0, incs, ip, count>>

\* ---- derived state ------------------------------------------------------
\* Threads parked inside os_unfair_lock_lock.
Waiters == {t \in DOMAIN pc : pc[t] = "parked"}

\* The three states of the lock named by the design.
LockState ==
    IF lock = OS_UNFAIR_LOCK_INIT THEN "UNLOCKED"
    ELSE IF Waiters = {} THEN "LOCKED" ELSE "LOCKED_WITH_WAITERS"

GuardsOf(t) == {g \in guards : g.by = t}
FreeIds == {i \in GuardIds : \A g \in guards : g.id # i}

Snapshot ==
    [lock |-> lock, cell |-> cell, waiters |-> Waiters, held |-> guards # {}]

Event(op, t, result, val) ==
    [op |-> op, t |-> t, result |-> result, val |-> val, pre |-> Snapshot]

\* ---- struct Mutex / struct MutexGuard -----------------------------------
Mutex(l, c) == [lock |-> l, cell |-> c]

\* MutexGuard { mutex: self }: a guard owned by thread t.  origin records
\* which expression built it; refs are the threads holding a shared
\* reference to it.
MutexGuard(t, origin) ==
    [id |-> CHOOSE i \in FreeIds : \A j \in FreeIds : i <= j,
     by |-> t, origin |-> origin, refs |-> {}]

\* ---- the raw lock capability --------------------------------------------
\* os_unfair_lock_trylock: takes the lock if it is free, never waits.
os_unfair_lock_trylock(w, t) ==
    IF w = OS_UNFAIR_LOCK_INIT THEN [ok |-> 1, lock |-> t]
    ELSE [ok |-> 0, lock |-> w]

\* os_unfair_lock_lock: takes the lock if it is free; otherwise the caller
\* parks and the call has not returned.
os_unfair_lock_lock(w, t) ==
    IF w = OS_UNFAIR_LOCK_INIT THEN [returned |-> TRUE, lock |-> t]
    ELSE [returned |-> FALSE, lock |-> w]

\* A release wakes one parked thread, if there is one; which one is not
\* specified.  The woken thread retries its acquire.
WakeOne ==
    IF Waiters = {} THEN pc' = pc
    ELSE \E w \in Waiters : pc' = [pc EXCEPT ![w] = "woken"]

\* os_unfair_lock_unlock called by thread t.  Called by the owner it
\* unlocks.  Called by anyone else the behaviour is undefined: the word is
\* cleared and the process is aborted, or the word is cleared and the
\* program goes on.
os_unfair_lock_unlock(t) ==
    \/ /\ lock = t
       /\ lock' = OS_UNFAIR_LOCK_INIT
       /\ WakeOne
       /\ status' = status
    \/ /\ lock # t
       /\ lock' = OS_UNFAIR_LOCK_INIT
       /\ pc' = pc
       /\ status' = "aborted"
    \/ /\ lock # t
       /\ lock' = OS_UNFAIR_LOCK_INIT
       /\ WakeOne
       /\ status' = status

\* os_unfair_lock_assert_not_owner called by thread t.
os_unfair_lock_assert_not_owner(w, t) == IF w = t THEN "abort" ELSE "ok"

\* ---- impl Mutex ---------------------------------------------------------
\* Faulty variant: the constructor stores a zeroed value, not its argument.
Mutex_new_zeroed(value) == Mutex(OS_UNFAIR_LOCK_INIT, 0)

\* Faulty variant: the lock word does not start as OS_UNFAIR_LOCK_INIT.
Mutex_new_locked(value) == Mutex(1, value)

Mutex_new(value) == Mutex(OS_UNFAIR_LOCK_INIT, value)

\* impl Default for Mutex and impl From<T> for Mutex both go through new.
Mutex_default == Mutex_new(DefaultValue)

Mutex_from(t) == Mutex_new(t)

Constructors == {"new", "default", "from"}

\* The value a constructor call is expected to wrap.
Wrapped(c, x) == IF c = "default" THEN DefaultValue ELSE x

Constructed(c, x) ==
    CASE c = "new" -> Mutex_new(x)
      [] c = "from" -> Mutex_from(x)
      [] c = "default" -> Mutex_default

\* Faulty variant: lock() builds the guard without calling
\* os_unfair_lock_lock.
Mutex_lock_no_acquire(t) ==
    /\ status = "live"
    /\ pc[t] \in {"running", "woken"}
    /\ FreeIds # {}
    /\ guards' = guards \cup {MutexGuard(t, "lock")}
    /\ pc' = [pc EXCEPT ![t] = "running"]
    /\ acquired' = acquired + 1
    /\ last' = Event("lock", t, "Guard", 0)
    /\ UNCHANGED <<lock, cell, status, released>>

\* Faulty variant: lock() hands the owner a second guard instead of
\* calling os_unfair_lock_lock again.
Mutex_lock_recursive(t) ==
    /\ status = "live"
    /\ pc[t] \in {"running", "woken"}
    /\ FreeIds # {}
    /\ LET r == IF lock = t THEN [returned |-> TRUE, lock |-> t]
                ELSE os_unfair_lock_lock(lock, t) IN
        /\ lock' = r.lock
        /\ IF r.returned
           THEN /\ guards' = guards \cup {MutexGuard(t, "lock")}
                /\ pc' = [pc EXCEPT ![t] = "running"]
                /\ acquired' = acquired + 1
                /\ last' = Event("lock", t, "Guard", 0)
           ELSE /\ guards' = guards
                /\ pc' = [pc EXCEPT ![t] = "parked"]
                /\ acquired' = acquired
                /\ last' = Event("lock", t, "Parked", 0)
    /\ UNCHANGED <<cell, status, released>>

\* Faulty variant: a new lock() call queues behind the threads that are
\* already inside lock(), even when the lock is free.
Mutex_lock_step_queued(t) ==
    /\ status = "live"
    /\ pc[t] \in {"running", "woken"}
    /\ FreeIds # {}
    /\ LET behind == pc[t] = "running" /\
                      \E u \in DOMAIN pc \ {t} : pc[u] \in {"parked", "woken"}
           r == IF behind THEN [returned |-> FALSE, lock |-> lock]
                ELSE os_unfair_lock_lock(lock, t) IN
        /\ lock' = r.lock
        /\ IF r.returned
           THEN /\ guards' = guards \cup {MutexGuard(t, "lock")}
                /\ pc' = [pc EXCEPT ![t] = "running"]
                /\ last' = Event("lock", t, "Guard", 0)
           ELSE /\ guards' = guards
                /\ pc' = [pc EXCEPT ![t] = "parked"]
                /\ last' = Event("lock", t, "Parked", 0)
    /\ UNCHANGED <<cell, status>>

\* Mutex::lock, from the call (pc "running") or from the retry of a woken
\* waiter (pc "woken"); the guard is built once os_unfair_lock_lock returns.
Mutex_lock_step(t) ==
    /\ status = "live"
    /\ pc[t] \in {"running", "woken"}
    /\ FreeIds # {}
    /\ LET r == os_unfair_lock_lock(lock, t) IN
        /\ lock' = r.lock
        /\ IF r.returned
           THEN /\ guards' = guards \cup {MutexGuard(t, "lock")}
                /\ pc' = [pc EXCEPT ![t] = "running"]
                /\ last' = Event("lock", t, "Guard", 0)
           ELSE /\ guards' = guards
                /\ pc' = [pc EXCEPT ![t] = "parked"]
                /\ last' = Event("lock", t, "Parked", 0)
    /\ UNCHANGED <<cell, status>>

\* Mutex_lock_step with the count of acquisitions kept.
Mutex_lock(t) ==
    /\ Mutex_lock_step(t)
    /\ acquired' = IF last'.result = "Guard" THEN acquired + 1 ELSE acquired
    /\ released' = released

\* Faulty variant: the test of ok is inverted.
Mutex_try_lock_inverted(t) ==
    /\ status = "live"
    /\ pc[t] = "running"
    /\ FreeIds # {}
    /\ LET r == os_unfair_lock_trylock(lock, t) IN
        /\ lock' = r.lock
        /\ IF r.ok = 0
           THEN /\ guards' = guards \cup {MutexGuard(t, "try_lock")}
                /\ acquired' = acquired + 1
                /\ last' = Event("try_lock", t, "Some", 0)
           ELSE /\ guards' = guards
                /\ acquired' = acquired
                /\ last' = Event("try_lock", t, "None", 0)
    /\ UNCHANGED <<cell, pc, status, released>>

\* Faulty variant: try_lock falls back to the blocking acquire when the
\* lock is busy.
Mutex_try_lock_blocking(t) ==
    /\ status = "live"
    /\ pc[t] = "running"
    /\ FreeIds # {}
    /\ LET r == os_unfair_lock_lock(lock, t) IN
        /\ lock' = r.lock
        /\ IF r.returned
           THEN /\ guards' = guards \cup {MutexGuard(t, "try_lock")}
                /\ pc' = pc
                /\ acquired' = acquired + 1
                /\ last' = Event("try_lock", t, "Some", 0)
           ELSE /\ guards' = guards
                /\ pc' = [pc EXCEPT ![t] = "parked"]
                /\ acquired' = acquired
                /\ last' = Event("try_lock", t, "None", 0)
    /\ UNCHANGED <<cell, status, released>>

Mutex_try_lock_step(t) ==
    /\ status = "live"
    /\ pc[t] = "running"
    /\ FreeIds # {}
    /\ LET r == os_unfair_lock_trylock(lock, t) IN
        /\ lock' = r.lock
        /\ IF r.ok # 0
           THEN /\ guards' = guards \cup {MutexGuard(t, "try_lock")}
                /\ last' = Event("try_lock", t, "Some", 0)
           ELSE /\ guards' = guards
                /\ last' = Event("try_lock", t, "None", 0)
    /\ UNCHANGED <<cell, pc, status>>

\* Mutex_try_lock_step with the count of acquisitions kept.
Mutex_try_lock(t) ==
    /\ Mutex_try_lock_step(t)
    /\ acquired' = IF last'.result = "Some" THEN acquired + 1 ELSE acquired
    /\ released' = released

\* m.try_lock().unwrap(), by a thread that owns no guard: the guard of Some
\* is handed on; on None unwrap panics, nothing is there to unwind, and the
\* thread is gone.
Mutex_try_lock_unwrap(t) ==
    /\ status = "live"
    /\ pc[t] = "running"
    /\ GuardsOf(t) = {}
    /\ FreeIds # {}
    /\ LET r == os_unfair_lock_trylock(lock, t) IN
        /\ lock' = r.lock
        /\ IF r.ok # 0
           THEN /\ guards' = guards \cup {MutexGuard(t, "try_lock")}
                /\ acquired' = acquired + 1
                /\ pc' = pc
                /\ last' = Event("try_lock", t, "Some", 0)
           ELSE /\ guards' = guards
                /\ acquired' = acquired
                /\ pc' = [pc EXCEPT ![t] = "dead"]
                /\ last' = Event("try_lock", t, "None", 0)
    /\ UNCHANGED <<cell, status, released>>

\* Faulty variant: assert_not_owner returns without asking the lock.
Mutex_assert_not_owner_unchecked(t) ==
    /\ status = "live"
    /\ pc[t] = "running"
    /\ last' = Event("assert_not_owner", t, "ok", 0)
    /\ UNCHANGED <<lock, cell, guards, pc, status, acquired, released>>

Mutex_assert_not_owner(t) ==
    /\ status = "live"
    /\ pc[t] = "running"
    /\ LET r == os_unfair_lock_assert_not_owner(lock, t) IN
        /\ status' = IF r = "abort" THEN "aborted" ELSE status
        /\ last' = Event("assert_not_owner", t, r, 0)
    /\ UNCHANGED <<lock, cell, guards, pc, acquired, released>>

\* Faulty variant: into_inner returns what the thread last saw, not the cell.
Mutex_into_inner_stale(t) ==
    /\ status = "live"
    /\ pc[t] = "running"
    /\ guards = {}
    /\ \A u \in DOMAIN pc : pc[u] \notin {"parked", "woken", "unwinding"}
    /\ status' = "consumed"
    /\ last' = Event("into_inner", t, "Value", x0)
    /\ UNCHANGED <<lock, cell, guards, pc, acquired, released>>

\* Faulty variant: into_inner reads the cell through a shared reference, so
\* nothing keeps guards and waiting threads away.
Mutex_into_inner_borrowed(t) ==
    /\ status = "live"
    /\ pc[t] = "running"
    /\ status' = "consumed"
    /\ last' = Event("into_inner", t, "Value", cell)
    /\ UNCHANGED <<lock, cell, guards, pc, acquired, released>>

\* Mutex::into_inner takes self by value: no guard borrows the Mutex and no
\* thread is inside lock() on it.
Mutex_into_inner(t) ==
    /\ status = "live"
    /\ pc[t] = "running"
    /\ guards = {}
    /\ \A u \in DOMAIN pc : pc[u] \notin {"parked", "woken", "unwinding"}
    /\ status' = "consumed"
    /\ last' = Event("into_inner", t, "Value", cell)
    /\ UNCHANGED <<lock, cell, guards, pc, acquired, released>>

\* ---- impl Deref / DerefMut / Drop for MutexGuard ------------------------
\* deref needs &MutexGuard: the owner of the guard or a thread it lent it to.
MutexGuard_deref(t, g) ==
    /\ status = "live"
    /\ pc[t] = "running"
    /\ g \in guards
    /\ g.by = t \/ t \in g.refs
    /\ last' = Event("deref", t, "Ref", cell)
    /\ UNCHANGED <<lock, cell, guards, pc, status, acquired, released>>

\* deref_mut needs &mut MutexGuard: the owner, with no shared reference out.
MutexGuard_deref_mut(t, g, v) ==
    /\ status = "live"
    /\ pc[t] = "running"
    /\ g \in guards
    /\ g.by = t
    /\ g.refs = {}
    /\ cell' = v
    /\ last' = Event("deref_mut", t, "RefMut", v)
    /\ UNCHANGED <<lock, guards, pc, status, acquired, released>>

\* Faulty variant: drop does not call os_unfair_lock_unlock.
MutexGuard_drop_no_unlock(t, g) ==
    /\ status = "live"
    /\ pc[t] \in {"running", "unwinding"}
    /\ g \in guards
    /\ g.by = t
    /\ g.refs = {}
    /\ guards' = guards \ {g}
    /\ last' = Event("drop", t, "Unit", 0)
    /\ UNCHANGED <<lock, cell, pc, status, acquired, released>>

\* Faulty variant: a guard dropped by unwinding leaves the lock locked.
MutexGuard_drop_unless_panicking(t, g) ==
    /\ status = "live"
    /\ pc[t] \in {"running", "unwinding"}
    /\ g \in guards
    /\ g.by = t
    /\ g.refs = {}
    /\ guards' = guards \ {g}
    /\ IF pc[t] = "unwinding"
       THEN UNCHANGED <<lock, pc, status, released>>
       ELSE released' = released + 1 /\ os_unfair_lock_unlock(t)
    /\ last' = Event("drop", t, IF status' = "aborted" THEN "Abort" ELSE "Unit", 0)
    /\ UNCHANGED <<cell, acquired>>

\* drop runs when the guard's scope ends in its owner, normally or while
\* the owner unwinds from a panic.
MutexGuard_drop_step(t, g) ==
    /\ status = "live"
    /\ pc[t] \in {"running", "unwinding"}
    /\ g \in guards
    /\ g.by = t
    /\ g.refs = {}
    /\ guards' = guards \ {g}
    /\ os_unfair_lock_unlock(t)
    /\ last' = Event("drop", t, IF status' = "aborted" THEN "Abort" ELSE "Unit", 0)
    /\ UNCHANGED cell

\* MutexGuard_drop_step with the count of os_unfair_lock_unlock calls kept.
MutexGuard_drop(t, g) ==
    /\ MutexGuard_drop_step(t, g)
    /\ released' = released + 1
    /\ acquired' = acquired

\* ---- what the types let safe callers do with a guard --------------------
\* MutexGuard<T> holds &Mutex<T>, and Mutex<T> is Sync when T is Send, so
\* the guard is Send: its owner can move it to another thread.
MutexGuard_send(t, g, u) ==
    /\ status = "live"
    /\ pc[t] = "running"
    /\ pc[u] = "running"
    /\ g \in guards
    /\ g.by = t
    /\ g.refs = {}
    /\ u # t
    /\ guards' = (guards \ {g}) \cup {[g EXCEPT !.by = u]}
    /\ last' = Event("send", t, "Moved", 0)
    /\ UNCHANGED <<lock, cell, pc, status, acquired, released>>

\* For the same reason the guard is Sync: its owner can lend &MutexGuard to
\* another thread, and take it back.
MutexGuard_share(t, g, u) ==
    /\ status = "live"
    /\ pc[t] = "running"
    /\ pc[u] = "running"
    /\ g \in guards
    /\ g.by = t
    /\ u # t
    /\ u \notin g.refs
    /\ guards' = (guards \ {g}) \cup {[g EXCEPT !.refs = @ \cup {u}]}
    /\ last' = Event("share", t, "Lent", 0)
    /\ UNCHANGED <<lock, cell, pc, status, acquired, released>>

MutexGuard_unshare(u, g) ==
    /\ status = "live"
    /\ pc[u] = "running"
    /\ g \in guards
    /\ u \in g.refs
    /\ guards' = (guards \ {g}) \cup {[g EXCEPT !.refs = @ \ {u}]}
    /\ last' = Event("unshare", u, "Returned", 0)
    /\ UNCHANGED <<lock, cell, pc, status, acquired, released>>

\* The field MutexGuard.mutex is pub: any thread holding &Mutex can write
\* the struct literal MutexGuard { mutex: &m } without calling lock().
MutexGuard_literal(t) ==
    /\ status = "live"
    /\ pc[t] = "running"
    /\ FreeIds # {}
    /\ guards' = guards \cup {MutexGuard(t, "literal")}
    /\ last' = Event("literal", t, "Guard", 0)
    /\ UNCHANGED <<lock, cell, pc, status, acquired, released>>

\* The pub field can also be assigned on a guard its owner holds by value:
\* g.mutex = &b, with b another Mutex.  The guard then belongs to b: for
\* this Mutex it is gone without Drop::drop having unlocked it.
MutexGuard_set_mutex(t, g) ==
    /\ status = "live"
    /\ pc[t] = "running"
    /\ g \in guards
    /\ g.by = t
    /\ g.refs = {}
    /\ guards' = guards \ {g}
    /\ last' = Event("set_mutex", t, "Away", 0)
    /\ UNCHANGED <<lock, cell, pc, status, acquired, released>>

\* The same assignment in the other direction, gb.mutex = &m on a guard gb
\* of another Mutex: this Mutex has a guard that no lock() call made.
MutexGuard_set_mutex_here(t) ==
    /\ status = "live"
    /\ pc[t] = "running"
    /\ FreeIds # {}
    /\ guards' = guards \cup {MutexGuard(t, "set_mutex")}
    /\ last' = Event("set_mutex", t, "Here", 0)
    /\ UNCHANGED <<lock, cell, pc, status, acquired, released>>

\* The fields of Mutex are pub as well.  Assigning one needs the Mutex by
\* value or by &mut, which exists only while no guard borrows the Mutex and
\* no thread is inside one of its methods.
\* m.lock = w
Mutex_set_lock(t, w) ==
    /\ status = "live"
    /\ pc[t] = "running"
    /\ guards = {}
    /\ \A u \in DOMAIN pc : pc[u] \notin {"parked", "woken", "unwinding"}
    /\ lock' = w
    /\ last' = Event("set_lock", t, "Unit", w)
    /\ UNCHANGED <<cell, guards, pc, status, acquired, released>>

\* *m.cell.get_mut() = v
Mutex_set_cell(t, v) ==
    /\ status = "live"
    /\ pc[t] = "running"
    /\ guards = {}
    /\ \A u \in DOMAIN pc : pc[u] \notin {"parked", "woken", "unwinding"}
    /\ cell' = v
    /\ last' = Event("set_cell", t, "Unit", v)
    /\ UNCHANGED <<lock, guards, pc, status, acquired, released>>

\* A thread panics while it owns a guard: its stack unwinds, which drops
\* the guards it owns (MutexGuard_drop), and then the thread is gone.
Panic(t) ==
    /\ status = "live"
    /\ pc[t] = "running"
    /\ GuardsOf(t) # {}
    /\ \A g \in GuardsOf(t) : g.refs = {}
    /\ pc' = [pc EXCEPT ![t] = "unwinding"]
    /\ last' = Event("panic", t, "Unwinding", 0)
    /\ UNCHANGED <<lock, cell, guards, status, acquired, released>>

Unwound(t) ==
    /\ status = "live"
    /\ pc[t] = "unwinding"
    /\ GuardsOf(t) = {}
    /\ pc' = [pc EXCEPT ![t] = "dead"]
    /\ last' = Event("unwound", t, "Dead", 0)
    /\ UNCHANGED <<lock, cell, guards, status, acquired, released>>

\* ---- impl Debug / Display for Mutex and for MutexGuard -----------------
\* Mutex::fmt is self.lock().fmt(f): the call of lock(), then the guard's
\* fmt, then the drop of the temporary guard.  The guard's fmt is
\* (**self).fmt(f): it formats the value it dereferences to.

\* Faulty variant: Debug for Mutex formats without acquiring the lock.
Mutex_Debug_fmt_unlocked(t) == Mutex_lock_no_acquire(t)

Mutex_Debug_fmt(t) == Mutex_lock(t)

Mutex_Display_fmt(t) == Mutex_lock(t)

MutexGuard_Debug_fmt(t, g) == MutexGuard_deref(t, g)

MutexGuard_Display_fmt(t, g) == MutexGuard_deref(t, g)

\* ---- Spec: any use of the public methods by NThreads threads ------------
\* The state right after the constructor call c with argument x, the Mutex
\* being shared by the threads of T.
InitOn(T, c, x) ==
    /\ lock = Constructed(c, x).lock
    /\ cell = Constructed(c, x).cell
    /\ guards = {}
    /\ pc = [t \in T |-> "running"]
    /\ status = "live"
    /\ acquired = 0
    /\ released = 0
    /\ last = [op |-> c, t |-> NoThread, result |-> "Mutex", val |-> Wrapped(c, x),
               pre |-> [lock |-> OS_UNFAIR_LOCK_INIT, cell |-> Wrapped(c, x),
                        waiters |-> {}, held |-> FALSE]]
    /\ x0 = Wrapped(c, x)

InitBy(c, x) == InitOn(Threads, c, x)

InitCore(x) == InitBy("new", x)

Init ==
    /\ \E c \in Constructors, x \in Values : InitBy(c, x)
    /\ reg = [t \in Threads |-> 0]
    /\ incs = [lock |-> 0, try_lock |-> 0, observed |-> 0]
    /\ ip = [t \in Threads |-> "free"]
    /\ count = [t \in Threads |-> 0]

Lock == \E t \in Threads :
    acquired < MaxAcquire /\ Mutex_lock(t) /\ UNCHANGED svars
TryLock == \E t \in Threads :
    acquired < MaxAcquire /\ Mutex_try_lock(t) /\ UNCHANGED svars
AssertNotOwner == \E t \in Threads : Mutex_assert_not_owner(t) /\ UNCHANGED svars
IntoInner == \E t \in Threads : Mutex_into_inner(t) /\ UNCHANGED svars
Deref == \E t \in Threads, g \in guards : MutexGuard_deref(t, g) /\ UNCHANGED svars
DerefMut == \E t \in Threads, g \in guards, v \in Values :
    MutexGuard_deref_mut(t, g, v) /\ UNCHANGED svars
Drop == \E t \in Threads, g \in guards : MutexGuard_drop(t, g) /\ UNCHANGED svars
Send == \E t \in Threads, u \in Threads, g \in guards :
    MutexGuard_send(t, g, u) /\ UNCHANGED svars
Share == \E t \in Threads, u \in Threads, g \in guards :
    MutexGuard_share(t, g, u) /\ UNCHANGED svars
Unshare == \E u \in Threads, g \in guards : MutexGuard_unshare(u, g) /\ UNCHANGED svars
Literal == \E t \in Threads :
    released < MaxAcquire /\ MutexGuard_literal(t) /\ UNCHANGED svars
ThreadPanic == \E t \in Threads : Panic(t) /\ UNCHANGED svars
ThreadUnwound == \E t \in Threads : Unwound(t) /\ UNCHANGED svars

Next ==
    \/ Lock
    \/ TryLock
    \/ AssertNotOwner
    \/ IntoInner
    \/ Deref
    \/ DerefMut
    \/ Drop
    \/ Send
    \/ Share
    \/ Unshare
    \/ ThreadPanic
    \/ ThreadUnwound

Spec == Init /\ [][Next]_vars

\* SpecPub: Spec plus what the pub fields allow: the struct literals of
\* MutexGuard and of Mutex, and assignments to the fields of both.
SetMutex == \E t \in Threads, g \in guards :
    MutexGuard_set_mutex(t, g) /\ UNCHANGED svars
SetMutexHere == \E t \in Threads :
    released < MaxAcquire /\ MutexGuard_set_mutex_here(t) /\ UNCHANGED svars
SetLock == \E t \in Threads, w \in Words :
    Mutex_set_lock(t, w) /\ UNCHANGED svars
SetCell == \E t \in Threads, v \in Values :
    Mutex_set_cell(t, v) /\ UNCHANGED svars

\* The Mutex comes from a constructor or from Mutex { lock: w, cell: x }.
InitPub ==
    \/ Init
    \/ /\ \E w \in Words, x \in Values :
            /\ lock = Mutex(w, x).lock
            /\ cell = Mutex(w, x).cell
            /\ last = [op |-> "Mutex_literal", t |-> NoThread, result |-> "Mutex",
                       val |-> x,
                       pre |-> [lock |-> w, cell |-> x, waiters |-> {},
                                held |-> FALSE]]
            /\ x0 = x
       /\ guards = {}
       /\ pc = [t \in Threads |-> "running"]
       /\ status = "live"
       /\ acquired = 0
       /\ released = 0
       /\ reg = [t \in Threads |-> 0]
       /\ incs = [lock |-> 0, try_lock |-> 0, observed |-> 0]
       /\ ip = [t \in Threads |-> "free"]
       /\ count = [t \in Threads |-> 0]

NextPub == Next \/ Literal \/ SetMutex \/ SetMutexHere \/ SetLock \/ SetCell

SpecPub == InitPub /\ [][NextPub]_vars

\* ---- SpecIncr: threads that only run critical sections ------------------
\* Every thread repeats: take a guard with lock() or try_lock(), read the
\* value through it, then either write value + 1 through it (Iters times per
\* thread) or only look at it, and drop the guard.  The guard of try_lock()
\* is unwrapped, so a thread that finds the lock taken panics.  With one
\* thread, the value TestValue and two increments this is tests::basics;
\* all threads using lock() and the value 0 is the counter of N threads x M
\* increments.
InitIncr ==
    /\ \E x \in {0, TestValue} : InitCore(x)
    /\ reg = [t \in Threads |-> 0]
    /\ incs = [lock |-> 0, try_lock |-> 0, observed |-> 0]
    /\ ip = [t \in Threads |-> "idle"]
    /\ count = [t \in Threads |-> 0]

Total == incs.lock + incs.try_lock

Entered(t) ==
    /\ ip' = [ip EXCEPT ![t] = IF \E g \in guards' : g.by = t THEN "read" ELSE "idle"]
    /\ UNCHANGED <<reg, x0, incs, count>>

IncrLock == \E t \in Threads :
    /\ ip[t] = "idle"
    /\ pc[t] = "woken" \/ count[t] < Iters \/ incs.observed < MaxObserve
    /\ Mutex_lock(t)
    /\ Entered(t)

IncrTryLock == \E t \in Threads :
    /\ ip[t] = "idle"
    /\ count[t] < Iters \/ incs.observed < MaxObserve
    /\ Mutex_try_lock_unwrap(t)
    /\ ip' = [ip EXCEPT ![t] = IF pc'[t] = "dead" THEN "panicked" ELSE "read"]
    /\ UNCHANGED <<reg, x0, incs, count>>

IncrRead == \E t \in Threads, g \in guards :
    /\ ip[t] = "read"
    /\ MutexGuard_deref(t, g)
    /\ reg' = [reg EXCEPT ![t] = last'.val]
    /\ \/ /\ count[t] < Iters
          /\ ip' = [ip EXCEPT ![t] = "write"]
          /\ incs' = incs
       \/ /\ incs.observed < MaxObserve
          /\ ip' = [ip EXCEPT ![t] = "drop"]
          /\ incs' = [incs EXCEPT !.observed = @ + 1]
       \/ /\ count[t] = Iters
          /\ incs.observed = MaxObserve
          /\ ip' = [ip EXCEPT ![t] = "drop"]
          /\ incs' = incs
    /\ UNCHANGED <<x0, count>>

IncrWrite == \E t \in Threads, g \in guards :
    /\ ip[t] = "write"
    /\ MutexGuard_deref_mut(t, g, reg[t] + 1)
    /\ incs' = [incs EXCEPT ![g.origin] = @ + 1]
    /\ count' = [count EXCEPT ![t] = @ + 1]
    /\ ip' = [ip EXCEPT ![t] = "drop"]
    /\ UNCHANGED <<reg, x0>>

\* The local copy of the value goes out of scope with the guard.
IncrDrop == \E t \in Threads, g \in guards :
    /\ ip[t] = "drop"
    /\ MutexGuard_drop(t, g)
    /\ ip' = [ip EXCEPT ![t] = "idle"]
    /\ reg' = [reg EXCEPT ![t] = 0]
    /\ UNCHANGED <<x0, incs, count>>

IncrIntoInner == \E t \in Threads :
    /\ \A u \in Threads : ip[u] = "idle"
    /\ Mutex_into_inner(t)
    /\ UNCHANGED svars

NextIncr ==
    \/ IncrLock
    \/ IncrTryLock
    \/ IncrRead
    \/ IncrWrite
    \/ IncrDrop
    \/ IncrIntoInner

SpecIncr == InitIncr /\ [][NextIncr]_vars

Finished == \A t \in Threads : count[t] = Iters /\ ip[t] = "idle" /\ pc[t] = "running"

\* ---- SpecFmt: formatting the Mutex while it is in use -------------------
\* Threads take the lock, write the value and drop the guard, and call
\* Debug::fmt or Display::fmt on the Mutex, also while holding a guard.
\*   ip[t]     "idle", "lock" (inside lock()), "cs" (holding a guard),
\*             "Debug.lock" / "Display.lock" (inside the lock() of fmt),
\*             "Debug.guard" / "Display.guard" (fmt has its guard),
\*             "Debug.done" / "Display.done" (formatted, guard still live)
\*   reg[t]    the value t's latest fmt wrote to the formatter
\*   count[t]  fmt calls of t that returned
\*   incs.observed  fmt calls that found the lock taken
Traits == {"Debug", "Display"}

InFmtLock(t) == ip[t] \in {"Debug.lock", "Display.lock"}

HasFmtGuard(t) == ip[t] \in {"Debug.guard", "Display.guard"}

FmtDone(t) == ip[t] \in {"Debug.done", "Display.done"}

InFmt(t) == InFmtLock(t) \/ HasFmtGuard(t) \/ FmtDone(t)

TraitOf(t) == IF ip[t] \in {"Debug.lock", "Debug.guard", "Debug.done"}
              THEN "Debug" ELSE "Display"

\* Threads inside a lock() call, counted against MaxAcquire with the
\* acquisitions made.
Pending == Cardinality({t \in Threads : pc[t] \in {"parked", "woken"}})

InitFmt ==
    /\ \E x \in Values : InitCore(x)
    /\ reg = [t \in Threads |-> 0]
    /\ incs = [lock |-> 0, try_lock |-> 0, observed |-> 0]
    /\ ip = [t \in Threads |-> "idle"]
    /\ count = [t \in Threads |-> 0]

FmtLock == \E t \in Threads :
    /\ ip[t] = "idle"
    /\ pc[t] = "running"
    /\ acquired + Pending < MaxAcquire
    /\ Mutex_lock(t)
    /\ ip' = [ip EXCEPT ![t] = IF pc'[t] = "running" THEN "cs" ELSE "lock"]
    /\ UNCHANGED <<reg, x0, incs, count>>

FmtTryLock == \E t \in Threads :
    /\ ip[t] = "idle"
    /\ acquired < MaxAcquire
    /\ Mutex_try_lock(t)
    /\ ip' = [ip EXCEPT ![t] = IF GuardsOf(t)' # {} THEN "cs" ELSE "idle"]
    /\ UNCHANGED <<reg, x0, incs, count>>

FmtWrite == \E t \in Threads, v \in Values :
    /\ ip[t] = "cs"
    /\ \E g \in GuardsOf(t) : MutexGuard_deref_mut(t, g, v)
    /\ UNCHANGED svars

FmtDrop == \E t \in Threads :
    /\ ip[t] = "cs"
    /\ \E g \in GuardsOf(t) : MutexGuard_drop(t, g)
    /\ ip' = [ip EXCEPT ![t] = "idle"]
    /\ UNCHANGED <<reg, x0, incs, count>>

\* t calls format!("{:?}", m): Debug::fmt on the Mutex.
FmtDebug == \E t \in Threads :
    /\ ip[t] \in {"idle", "cs"}
    /\ pc[t] = "running"
    /\ acquired + Pending < MaxAcquire
    /\ Mutex_Debug_fmt(t)
    /\ ip' = [ip EXCEPT ![t] =
                IF pc'[t] = "running" THEN "Debug.guard" ELSE "Debug.lock"]
    /\ incs' = [incs EXCEPT !.observed = IF pc'[t] = "running" THEN @ ELSE @ + 1]
    /\ UNCHANGED <<reg, x0, count>>

\* t calls format!("{}", m): Display::fmt on the Mutex.
FmtDisplay == \E t \in Threads :
    /\ ip[t] \in {"idle", "cs"}
    /\ pc[t] = "running"
    /\ acquired + Pending < MaxAcquire
    /\ Mutex_Display_fmt(t)
    /\ ip' = [ip EXCEPT ![t] =
                IF pc'[t] = "running" THEN "Display.guard" ELSE "Display.lock"]
    /\ incs' = [incs EXCEPT !.observed = IF pc'[t] = "running" THEN @ ELSE @ + 1]
    /\ UNCHANGED <<reg, x0, count>>

\* t, woken inside lock(), tries again for the lock.
FmtRetry == \E t \in Threads :
    /\ pc[t] = "woken"
    /\ Mutex_lock(t)
    /\ ip' = [ip EXCEPT ![t] =
                IF pc'[t] # "running" THEN @
                ELSE IF @ = "lock" THEN "cs"
                ELSE IF @ = "Debug.lock" THEN "Debug.guard"
                ELSE "Display.guard"]
    /\ UNCHANGED <<reg, x0, incs, count>>

\* The guard's fmt writes the value to the formatter.
FmtFormat == \E t \in Threads, g \in guards :
    /\ HasFmtGuard(t)
    /\ g.by = t
    /\ IF TraitOf(t) = "Debug" THEN MutexGuard_Debug_fmt(t, g)
                               ELSE MutexGuard_Display_fmt(t, g)
    /\ reg' = [reg EXCEPT ![t] = last'.val]
    /\ ip' = [ip EXCEPT ![t] = IF TraitOf(t) = "Debug" THEN "Debug.done"
                                                       ELSE "Display.done"]
    /\ UNCHANGED <<x0, incs, count>>

\* The temporary guard is dropped and fmt returns.
FmtReturn == \E t \in Threads, g \in guards :
    /\ FmtDone(t)
    /\ g.by = t
    /\ MutexGuard_drop(t, g)
    /\ ip' = [ip EXCEPT ![t] = "idle"]
    /\ count' = [count EXCEPT ![t] = @ + 1]
    /\ UNCHANGED <<reg, x0, incs>>

NextFmt ==
    \/ FmtLock \/ FmtTryLock \/ FmtWrite \/ FmtDrop
    \/ FmtDebug \/ FmtDisplay \/ FmtRetry \/ FmtFormat \/ FmtReturn

SpecFmt == InitFmt /\ [][NextFmt]_vars

\* ---- SpecWait: NContenders threads contending for the lock -------------
\* Every thread repeats: acquire with lock() or try_lock(), hold the guard,
\* drop it.  A thread calls lock() or try_lock() only while it holds no
\* guard, and a guard stays with the thread that acquired it.
\*   ip[t]     "idle", "waiting" (inside lock()) or "cs" (holding a guard)
\*   count[t]  the number of calls made before the call t is waiting in or
\*             holds its guard from (0 while t is idle)
\*   incs      the lock() and try_lock() calls made so far
Calls == incs.lock + incs.try_lock

InitWait ==
    /\ InitOn(Contenders, "new", TestValue)
    /\ reg = [t \in Contenders |-> 0]
    /\ incs = [lock |-> 0, try_lock |-> 0, observed |-> 0]
    /\ ip = [t \in Contenders |-> "idle"]
    /\ count = [t \in Contenders |-> 0]

\* t calls lock().
WaitLock == \E t \in Contenders :
    /\ ip[t] = "idle"
    /\ pc[t] = "running"
    /\ Calls < MaxCalls
    /\ Mutex_lock(t)
    /\ ip' = [ip EXCEPT ![t] = IF pc'[t] = "running" THEN "cs" ELSE "waiting"]
    /\ count' = [count EXCEPT ![t] = Calls]
    /\ incs' = [incs EXCEPT !.lock = @ + 1]
    /\ UNCHANGED <<reg, x0>>

\* t, woken inside lock(), tries again for the lock.
WaitRetry(t) ==
    /\ ip[t] = "waiting"
    /\ pc[t] = "woken"
    /\ Mutex_lock(t)
    /\ ip' = [ip EXCEPT ![t] = IF pc'[t] = "running" THEN "cs" ELSE "waiting"]
    /\ UNCHANGED <<reg, x0, incs, count>>

\* t calls try_lock().
WaitTryLock == \E t \in Contenders :
    /\ ip[t] = "idle"
    /\ pc[t] = "running"
    /\ Calls < MaxCalls
    /\ Mutex_try_lock(t)
    /\ ip' = [ip EXCEPT ![t] = IF GuardsOf(t)' # {} THEN "cs" ELSE "idle"]
    /\ count' = [count EXCEPT ![t] = IF GuardsOf(t)' # {} THEN Calls ELSE 0]
    /\ incs' = [incs EXCEPT !.try_lock = @ + 1]
    /\ UNCHANGED <<reg, x0>>

\* t's guard goes out of scope.
WaitDrop(t) ==
    /\ ip[t] = "cs"
    /\ \E g \in GuardsOf(t) : MutexGuard_drop(t, g)
    /\ ip' = [ip EXCEPT ![t] = "idle"]
    /\ count' = [count EXCEPT ![t] = 0]
    /\ UNCHANGED <<reg, x0, incs>>

WaitRetries == \E t \in Contenders : WaitRetry(t)

WaitDrops == \E t \in Contenders : WaitDrop(t)

NextWait == WaitLock \/ WaitRetries \/ WaitTryLock \/ WaitDrops

SpecWait == InitWait /\ [][NextWait]_vars

\* ---- SpecLive: SpecWait with a fair scheduler --------------------------
\* A thread that was woken is runnable and gets to run; a thread holding a
\* guard reaches the end of the guard's scope.
Fairness == \A t \in Contenders : WF_vars(WaitRetry(t)) /\ WF_vars(WaitDrop(t))

SpecLive == InitWait /\ [][NextWait]_vars /\ Fairness

\* Threads inside a lock() call that has not returned.
InLock == {t \in Contenders : ip[t] \in {"waiting", "overtaken"}}

\* ---- SpecStarve: a fair schedule under which waiters wait for ever ------
\* The threads of SpecWait with no bound on their calls; the counts of
\* acquisitions and releases are not kept, so that runs of any length stay
\* within finitely many states.
\*   ip[t]     "idle", "waiting" (inside lock()), "overtaken" (inside
\*             lock(), woken at least once and parked again), "cs"
InitStarve ==
    /\ InitOn(Contenders, "new", TestValue)
    /\ reg = [t \in Contenders |-> 0]
    /\ incs = [lock |-> 0, try_lock |-> 0, observed |-> 0]
    /\ ip = [t \in Contenders |-> "idle"]
    /\ count = [t \in Contenders |-> 0]

\* t calls lock().
CycleLock(t) ==
    /\ ip[t] = "idle"
    /\ pc[t] = "running"
    /\ Mutex_lock_step(t)
    /\ ip' = [ip EXCEPT ![t] = IF pc'[t] = "running" THEN "cs" ELSE "waiting"]
    /\ UNCHANGED <<acquired, released, svars_but_ip>>

\* t, woken inside lock(), tries again for the lock.
CycleRetry(t) ==
    /\ t \in InLock
    /\ pc[t] = "woken"
    /\ Mutex_lock_step(t)
    /\ ip' = [ip EXCEPT ![t] = IF pc'[t] = "running" THEN "cs" ELSE "overtaken"]
    /\ UNCHANGED <<acquired, released, svars_but_ip>>

\* t calls try_lock().
CycleTryLock(t) ==
    /\ ip[t] = "idle"
    /\ pc[t] = "running"
    /\ Mutex_try_lock_step(t)
    /\ ip' = [ip EXCEPT ![t] = IF GuardsOf(t)' # {} THEN "cs" ELSE "idle"]
    /\ UNCHANGED <<acquired, released, svars_but_ip>>

\* t's guard goes out of scope.
CycleDrop(t) ==
    /\ ip[t] = "cs"
    /\ \E g \in GuardsOf(t) : MutexGuard_drop_step(t, g)
    /\ ip' = [ip EXCEPT ![t] = "idle"]
    /\ UNCHANGED <<acquired, released, svars_but_ip>>

\* Any step of the threads.
NextCycle == \E t \in Contenders :
    CycleLock(t) \/ CycleRetry(t) \/ CycleTryLock(t) \/ CycleDrop(t)

\* The schedule: a woken thread gets to run only at moments when another
\* thread has the lock; everything else runs as it comes.
StarveLock == \E t \in Contenders : CycleLock(t)

StarveTryLock == \E t \in Contenders : CycleTryLock(t)

StarveRetry(t) == lock # OS_UNFAIR_LOCK_INIT /\ CycleRetry(t)

StarveRetries == \E t \in Contenders : StarveRetry(t)

StarveDrops == \E t \in Contenders : CycleDrop(t)

\* A call of lock() or try_lock() that finds the lock free.
Barge == lock = OS_UNFAIR_LOCK_INIT /\ (StarveLock \/ StarveTryLock)

NextStarve == StarveLock \/ StarveTryLock \/ StarveRetries \/ StarveDrops

\* Every woken thread runs again and again, every holder drops its guard,
\* and a free lock is asked for.
StarveFairness ==
    /\ \A t \in Contenders : SF_vars(StarveRetry(t)) /\ WF_vars(CycleDrop(t))
    /\ WF_vars(Barge)

SpecStarve == InitStarve /\ [][NextStarve]_vars /\ StarveFairness


\* ---- the properties -----------------------------------------------------
Gone == {g \in guards : \A h \in guards' : h.id # g.id}

\* C1: under any interleaving of lock, try_lock and guard drops by the
\* threads, at most one live MutexGuard exists for the Mutex.
MutualExclusion == Cardinality(guards) <= 1

\* One thread owns the guard, another is parked in lock(), and a try_lock
\* has just been refused.
MutualExclusion_Witness ==
    /\ Cardinality(guards) = 1
    /\ Waiters # {}
    /\ last.op = "try_lock"
    /\ last.result = "None"

\* C2: N threads each doing M times lock / read / write value + 1 / drop on
\* a Mutex that starts at 0 leave exactly N * M in it once all have finished.
NoLostUpdates == (x0 = 0 /\ Finished) => cell = NThreads * Iters

NoLostUpdates_Witness ==
    /\ x0 = 0
    /\ Finished
    /\ incs.lock = NThreads * Iters
    /\ cell = NThreads * Iters

\* C3: a thread that reads or writes the protected value through a guard is
\* the thread that holds the lock at that moment.
AccessOnlyByHolder ==
    last.op \in {"deref", "deref_mut"} => last.pre.lock = last.t

\* C4: every guard's end of scope makes exactly one os_unfair_lock_unlock
\* call; releases never exceed acquisitions, and they are equal once no
\* guard is left.
ExactlyOnceRelease ==
    /\ [](released <= acquired /\ (guards = {} => released = acquired))
    /\ [][released' = released + Cardinality(Gone)]_vars

\* The guard of a panicking thread has just been dropped by its unwinding.
ExactlyOnceRelease_Witness ==
    /\ last.op = "drop"
    /\ pc[last.t] = "unwinding"
    /\ guards = {}
    /\ released = acquired
    /\ released = 1
    /\ lock = OS_UNFAIR_LOCK_INIT

\* C5: every guard drop is executed by the thread that holds the lock, so
\* the lock is never released by another thread or while UNLOCKED.
ReleaseOnlyByHolder == last.op = "drop" => last.pre.lock = last.t

\* C6: the lock word is locked exactly when a live guard exists, and every
\* guard was returned by lock() or by try_lock().
LockStateTruthful ==
    /\ (lock # OS_UNFAIR_LOCK_INIT) <=> (guards # {})
    /\ \A g \in guards : g.origin \in {"lock", "try_lock"}

\* C7: try_lock returns None while a guard on the Mutex is held, and Some
\* once that guard has been dropped and nobody has acquired since.
TryLockContention ==
    last.op = "try_lock" =>
        IF last.pre.held THEN last.result = "None" ELSE last.result = "Some"

\* Thread B's try_lock is refused while another thread owns the guard.
TryLockContention_Witness ==
    /\ last.op = "try_lock"
    /\ last.result = "None"
    /\ \E g \in guards : g.by # last.t /\ last.pre.lock = g.by

\* C8: try_lock returns in one step without the caller waiting; it returns
\* Some and locks only from UNLOCKED, and otherwise returns None and leaves
\* the lock word, the waiters and the value as they were.
TryLockNoBlockNoEffect ==
    last.op = "try_lock" =>
        /\ pc[last.t] = "running"
        /\ Waiters = last.pre.waiters
        /\ cell = last.pre.cell
        /\ (last.pre.lock = OS_UNFAIR_LOCK_INIT) <=> (last.result = "Some")
        /\ last.result = "Some" => lock = last.t /\ LockState # "UNLOCKED"
        /\ last.result = "None" => lock = last.pre.lock

\* A try_lock refused while another thread holds the lock.
TryLockNoBlockNoEffect_Witness ==
    /\ last.op = "try_lock"
    /\ last.result = "None"
    /\ last.pre.lock \notin {OS_UNFAIR_LOCK_INIT, last.t}
    /\ lock = last.pre.lock

\* C9: the value read through a guard right after lock() or try_lock() is
\* the value Mutex::new was given plus every increment made through earlier
\* guards, whichever threads made them; a try_lock made when no guard is
\* left succeeds; so 42, +1 by a lock() guard, +1 by a try_lock() guard
\* reads 44.
Visibility ==
    /\ last.op = "deref" => last.val = x0 + Total
    /\ (last.op = "try_lock" /\ ~last.pre.held) => last.result = "Some"
    /\ (last.op = "deref" /\ x0 = TestValue /\ incs.lock = 1 /\ incs.try_lock = 1)
          => last.val = 44

\* tests::basics: one thread made both increments and now reads through a
\* lock() guard.
Visibility_Witness ==
    /\ x0 = TestValue
    /\ last.op = "deref"
    /\ last.val = 44
    /\ count[last.t] = 2
    /\ incs.lock = 1
    /\ incs.try_lock = 1
    /\ \E g \in guards : g.by = last.t /\ g.origin = "lock"

\* C10: into_inner returns the value given to Mutex::new when nothing was
\* written, and in general the value last written through a guard.
RoundTrip ==
    last.op = "into_inner" =>
        /\ last.val = x0 + Total
        /\ Total = 0 => last.val = x0
        /\ (x0 = TestValue /\ Total = 2) => last.val = 44

\* Mutex::new(42).into_inner() with nothing written in between.
RoundTrip_Witness ==
    /\ last.op = "into_inner"
    /\ acquired = 0
    /\ x0 = TestValue
    /\ last.val = TestValue

\* C11: assert_not_owner returns normally, changing nothing, unless the
\* calling thread is the owner of the lock, and then the process is aborted.
MisuseDetection ==
    last.op = "assert_not_owner" =>
        /\ lock = last.pre.lock
        /\ cell = last.pre.cell
        /\ IF last.pre.lock = last.t
           THEN status = "aborted" /\ last.result = "abort"
           ELSE status = "live" /\ last.result = "ok"

\* A thread that holds its own guard called assert_not_owner.
MisuseDetection_Witness ==
    /\ last.op = "assert_not_owner"
    /\ status = "aborted"
    /\ \E g \in guards : g.by = last.t /\ g.origin = "lock"

\* C12: lock() by the thread that already owns the lock parks the caller,
\* gives it no second guard and aborts nothing; and a thread parked on a
\* lock it owns through a live guard stays parked for ever.
SelfDeadlock ==
    /\ [](last.op = "lock" /\ last.pre.lock = last.t =>
            /\ last.result = "Parked"
            /\ pc[last.t] = "parked"
            /\ lock = last.t
            /\ status = "live"
            /\ Cardinality(guards) <= 1)
    /\ [][\A t \in Threads :
            (pc[t] = "parked" /\ lock = t /\ GuardsOf(t) # {}) =>
                /\ pc'[t] = "parked"
                /\ lock' = t
                /\ acquired' = acquired
                /\ status' = "live"]_vars

\* A thread is parked on the lock it holds, and the program went on.
SelfDeadlock_Witness ==
    /\ \E t \in Threads : pc[t] = "parked" /\ lock = t /\ GuardsOf(t) # {}
    /\ last.op = "try_lock"
    /\ last.result = "None"

\* C13: new, default and from leave the word at OS_UNFAIR_LOCK_INIT and the
\* given (or default) value in the cell, having acquired and released
\* nothing; and no lock() or try_lock() call ever leaves the program without
\* a first acquisition, so the first call succeeded at once.
ConstructionUnlocked ==
    /\ last.op \in Constructors =>
        /\ lock = OS_UNFAIR_LOCK_INIT
        /\ LockState = "UNLOCKED"
        /\ cell = last.val
        /\ guards = {}
        /\ acquired = 0
        /\ released = 0
    /\ last.op = "default" => cell = DefaultValue
    /\ last.op \in {"lock", "try_lock"} => acquired >= 1

\* The first call after construction was a lock() and returned a guard.
ConstructionUnlocked_Witness ==
    /\ last.op = "lock"
    /\ last.result = "Guard"
    /\ acquired = 1
    /\ released = 0
    /\ cell = x0

\* C15: the guard of a panicking thread is dropped by the unwinding and the
\* lock is UNLOCKED again; a thread that is gone owns no guard; after a
\* panic lock() and try_lock() on the free lock return an ordinary guard;
\* and neither the panic, the drop nor the acquisition touches the value.
NoPoisoning ==
    /\ [](/\ (last.op = "drop" /\ pc[last.t] = "unwinding") =>
               lock = OS_UNFAIR_LOCK_INIT /\ cell = last.pre.cell
          /\ \A t \in Threads : pc[t] = "dead" => GuardsOf(t) = {}
          /\ ((\E t \in Threads : pc[t] \in {"unwinding", "dead"})
                 /\ last.op \in {"lock", "try_lock"}
                 /\ last.pre.lock = OS_UNFAIR_LOCK_INIT) =>
               /\ last.result \in {"Guard", "Some"}
               /\ status = "live"
               /\ cell = last.pre.cell)
    /\ [][last'.op \in {"panic", "drop", "unwound", "lock", "try_lock"} =>
            cell' = cell]_vars

\* A thread wrote the value, panicked and is gone; another thread has just
\* locked and finds the value as it was left.
NoPoisoning_Witness ==
    /\ \E t \in Threads : pc[t] = "dead" /\ t # last.t
    /\ last.op = "lock"
    /\ last.result = "Guard"
    /\ acquired = 2
    /\ cell # x0

\* C17: into_inner runs only when no guard is live and no thread is inside
\* lock(); it leaves the lock word, the guards and the acquire and release
\* counts alone; nothing happens to the Mutex afterwards.
ExtractionNeedsNoLock ==
    /\ [][(status # "consumed" /\ status' = "consumed") =>
            /\ guards = {}
            /\ \A u \in Threads : pc[u] \notin {"parked", "woken"}
            /\ last'.val = cell
            /\ UNCHANGED <<lock, cell, guards, pc, acquired, released>>]_vars
    /\ [][status # "consumed"]_vars

\* into_inner after a guard was taken and dropped.
ExtractionNeedsNoLock_Witness ==
    /\ last.op = "into_inner"
    /\ status = "consumed"
    /\ acquired = 1
    /\ released = 1
    /\ lock = OS_UNFAIR_LOCK_INIT

Progress ==
    /\ \A n \in 0..MaxCalls :
        (InLock # {} /\ acquired = n) ~> (acquired > n)
    /\ (InLock # {} /\ lock = OS_UNFAIR_LOCK_INIT) ~> (lock # OS_UNFAIR_LOCK_INIT)
    /\ [](last.op = "lock" =>
            last.result \in {"Guard", "Parked"} /\ status = "live")
    /\ [](\A t \in Contenders : pc[t] \in {"parked", "woken"} <=> t \in InLock)

\* A thread that had to wait inside lock() has come out with the guard
\* while another thread is still waiting.
Progress_Witness ==
    /\ last.op = "lock"
    /\ last.result = "Guard"
    /\ count[last.t] < Calls - 1
    /\ InLock # {}

\* C19: under the schedule of SpecStarve, whose steps are steps of the
\* threads and which is fair to every woken thread and every holder,
\* a free lock goes to whichever thread calls lock() or try_lock(), also
\* while other threads are inside an earlier lock() call; the lock is taken
\* and released again and again; and a thread inside lock() stays inside
\* lock() for ever.
Unfairness ==
    /\ []((/\ last.op \in {"lock", "try_lock"}
           /\ last.pre.lock = OS_UNFAIR_LOCK_INIT
           /\ InLock \ {last.t} # {}) =>
              /\ last.result \in {"Guard", "Some"}
              /\ lock = last.t
              /\ GuardsOf(last.t) # {})
    /\ [][NextCycle]_vars
    /\ \A t \in Contenders : WF_vars(CycleRetry(t)) /\ WF_vars(CycleDrop(t))
    /\ []<>(lock = OS_UNFAIR_LOCK_INIT)
    /\ []<>(lock # OS_UNFAIR_LOCK_INIT)
    /\ \A t \in Contenders : [](t \in InLock => [](t \in InLock))

\* A thread inside lock() was woken and parked again, and a call made after
\* its own has just acquired the lock ahead of it.
Unfairness_Witness ==
    /\ last.op \in {"lock", "try_lock"}
    /\ last.result \in {"Guard", "Some"}
    /\ \E u \in Contenders \ {last.t} : ip[u] = "overtaken" /\ pc[u] = "parked"

\* C16: Debug::fmt and Display::fmt on the Mutex hold the lock through a
\* guard of their own while they format, write the protected value, and
\* have released the lock when they return, the value untouched; a call
\* that finds the lock taken waits inside lock() until it is free; a call by
\* a thread that holds a guard itself stays inside lock() for ever.
FormattingPassthrough ==
    /\ [](\A t \in Threads :
            /\ (HasFmtGuard(t) \/ FmtDone(t)) =>
                 lock = t /\ guards = GuardsOf(t) /\ Cardinality(guards) = 1
            /\ InFmtLock(t) => pc[t] \in {"parked", "woken"})
    /\ [][\A t \in Threads :
            /\ (HasFmtGuard(t) /\ FmtDone(t)') =>
                 reg'[t] = cell /\ cell' = cell
            /\ (FmtDone(t) /\ ~FmtDone(t)') =>
                 /\ ip'[t] = "idle"
                 /\ lock' = OS_UNFAIR_LOCK_INIT
                 /\ guards' = {}
                 /\ cell' = cell
                 /\ reg'[t] = cell
            /\ (~InFmt(t) /\ InFmt(t)') =>
                 /\ HasFmtGuard(t)' <=> (lock = OS_UNFAIR_LOCK_INIT)
                 /\ InFmtLock(t)' <=> (lock # OS_UNFAIR_LOCK_INIT)
                 /\ lock' = IF lock = OS_UNFAIR_LOCK_INIT THEN t ELSE lock
                 /\ cell' = cell
            /\ (InFmtLock(t) /\ HasFmtGuard(t)') => lock = OS_UNFAIR_LOCK_INIT
            /\ (InFmtLock(t) /\ GuardsOf(t) # {}) =>
                 /\ InFmtLock(t)'
                 /\ pc'[t] = "parked"
                 /\ lock' = t
                 /\ guards' = guards
                 /\ count' = count]_vars

\* A fmt call found the lock taken by another thread, waited, formatted the
\* value that thread had written, and has just returned.
FormattingPassthrough_Witness ==
    /\ last.op = "drop"
    /\ count[last.t] = 1
    /\ incs.observed = 1
    /\ \A u \in Threads \ {last.t} : count[u] = 0 /\ ~InFmt(u)
    /\ ip[last.t] = "idle"
    /\ reg[last.t] = cell
    /\ cell # x0
    /\ lock = OS_UNFAIR_LOCK_INIT

====
